---------------------------- MODULE Spec2Model ----------------------------
(***************************************************************************)
(* Model of the Verible packaging scripts of tools-verible:               *)
(*   .github/workflows/build.py  (build info as JSON; called "json" here)  *)
(*   build.py                    (build info as flat text; called "text")  *)
(* A run of main() is a linear pipeline over a shared file system.  File  *)
(* names are sequences of one-character strings, so that concatenation,   *)
(* substring tests and str.replace are computed as Python computes them.  *)
(***************************************************************************)
EXTENDS Integers, Sequences, FiniteSets

(* ------------------------------ bounds -------------------------------- *)
\* Number of invocations of the script, one after the other, that one
\* behaviour holds.
MaxRuns == 2
\* Longest release tag / verible release tag drawn for the name functions.
MaxTagLen == 2

\* The processes: one at a time where the script is run again and again,
\* both where two invocations run side by side.
Runs == {1, 2}

(* --------------------------- string helpers --------------------------- *)
\* a + b on Python strings
Cat(a, b) == a \o b

\* "".join(parts)
RECURSIVE Join(_)
Join(parts) == IF parts = <<>> THEN <<>> ELSE Head(parts) \o Join(Tail(parts))

\* the positions at which sub occurs in s as a contiguous substring
Occurrences(sub, s) ==
    {i \in 1..(Len(s) + 1) :
        /\ i + Len(sub) - 1 <= Len(s)
        /\ \A j \in 1..Len(sub) : s[i + j - 1] = sub[j]}

\* sub in s
Contains(sub, s) == Occurrences(sub, s) # {}

\* s.startswith(pre), s.endswith(suf)
StartsWith(s, pre) == Len(pre) <= Len(s) /\ SubSeq(s, 1, Len(pre)) = pre
EndsWith(s, suf) ==
    Len(suf) <= Len(s) /\ SubSeq(s, Len(s) - Len(suf) + 1, Len(s)) = suf

\* s.replace(ch, "") for a one-character ch
RemoveChar(s, ch) == SelectSeq(s, LAMBDA c : c # ch)

\* all strings over alphabet of length 0..n
StringsUpTo(alphabet, n) == UNION {[1..k -> alphabet] : k \in 0..n}

(* --------------------------- string literals -------------------------- *)
S_darwin_arm64 == <<"d", "a", "r", "w", "i", "n", "-", "a", "r", "m", "6", "4">>
S_darwin_x86_64 == <<"d", "a", "r", "w", "i", "n", "-", "x", "8", "6", "-", "6", "4">>
S_linux_x86_64 == <<"l", "i", "n", "u", "x", "-", "x", "8", "6", "-", "6", "4">>
S_linux_aarch64 == <<"l", "i", "n", "u", "x", "-", "a", "a", "r", "c", "h", "6", "4">>
S_windows_amd64 == <<"w", "i", "n", "d", "o", "w", "s", "-", "a", "m", "d", "6", "4">>
S_windows == <<"w", "i", "n", "d", "o", "w", "s">>
S_verible_ == <<"v", "e", "r", "i", "b", "l", "e", "-">>
S_macOS == <<"-", "m", "a", "c", "O", "S">>
S_linux_static_x86_64 == <<"-", "l", "i", "n", "u", "x", "-", "s", "t", "a", "t", "i", "c", "-", "x", "8", "6", "_", "6", "4">>
S_linux_static_arm64 == <<"-", "l", "i", "n", "u", "x", "-", "s", "t", "a", "t", "i", "c", "-", "a", "r", "m", "6", "4">>
S_win64 == <<"-", "w", "i", "n", "6", "4">>
S_tar_gz == <<"t", "a", "r", ".", "g", "z">>
S_zip == <<"z", "i", "p">>
S_tar == <<"t", "a", "r">>
S_zxf == <<"z", "x", "f">>
S_unzip == <<"u", "n", "z", "i", "p">>
S_apio_verible == <<"a", "p", "i", "o", "-", "v", "e", "r", "i", "b", "l", "e">>
S_tgz == <<".", "t", "g", "z">>
S_dot_tar_gz == <<".", "t", "a", "r", ".", "g", "z">>
S_url == <<"h", "t", "t", "p", "s", ":", "/", "/", "g", "i", "t", "h", "u", "b", ".", "c", "o", "m", "/", "c", "h", "i", "p", "s", "a", "l", "l", "i", "a", "n", "c", "e", "/", "v", "e", "r", "i", "b", "l", "e", "/", "r", "e", "l", "e", "a", "s", "e", "s", "/", "d", "o", "w", "n", "l", "o", "a", "d">>
S_upstream == <<"_", "u", "p", "s", "t", "r", "e", "a", "m">>
S_packages == <<"_", "p", "a", "c", "k", "a", "g", "e", "s">>
S_bin == <<"b", "i", "n">>
S_exe == <<"v", "e", "r", "i", "b", "l", "e", "-", "v", "e", "r", "i", "l", "o", "g", "-", "f", "o", "r", "m", "a", "t", ".", "e", "x", "e">>
S_lint == <<"v", "e", "r", "i", "b", "l", "e", "-", "v", "e", "r", "i", "l", "o", "g", "-", "l", "i", "n", "t", ".", "e", "x", "e">>
S_BUILD_INFO_json == <<"B", "U", "I", "L", "D", "-", "I", "N", "F", "O", ".", "j", "s", "o", "n">>
S_BUILD_INFO == <<"B", "U", "I", "L", "D", "-", "I", "N", "F", "O">>
S_platform_id_eq == <<"p", "l", "a", "t", "f", "o", "r", "m", "-", "i", "d", " ", "=", " ">>
S_verible_tag_eq == <<"v", "e", "r", "i", "b", "l", "e", "-", "t", "a", "g", " ", "=", " ">>

\* build.py: the pinned upstream release
VERIBLE_TAG == <<"v", "0", ".", "0", "-", "3", "8", "6", "2", "-", "g", "9", "3", "6", "d", "f", "b", "1", "d">>

(* ------------------------- platform registry -------------------------- *)
PlatformInfo(base, ext, wrapper, cmd) ==
    [verible_base_filename |-> base, verible_ext |-> ext,
     verible_wrapper_dir |-> wrapper, unarchive_cmd |-> cmd]

\* a registry whose names hold the tag twice
platforms_tag_twice(verible_release_tag) ==
    LET v == Cat(Cat(S_verible_, verible_release_tag), verible_release_tag)
        table ==
          { <<S_darwin_arm64,  PlatformInfo(Cat(v, S_macOS), S_tar_gz, Cat(v, S_macOS), <<S_tar, S_zxf>>)>>,
            <<S_darwin_x86_64, PlatformInfo(Cat(v, S_macOS), S_tar_gz, Cat(v, S_macOS), <<S_tar, S_zxf>>)>>,
            <<S_linux_x86_64,  PlatformInfo(Cat(v, S_linux_static_x86_64), S_tar_gz, v, <<S_tar, S_zxf>>)>>,
            <<S_linux_aarch64, PlatformInfo(Cat(v, S_linux_static_arm64), S_tar_gz, v, <<S_tar, S_zxf>>)>>,
            <<S_windows_amd64, PlatformInfo(Cat(v, S_win64), S_zip, Cat(v, S_win64), <<S_unzip>>)>> }
    IN [id \in {e[1] : e \in table} |-> (CHOOSE e \in table : e[1] = id)[2]]

\* the dict literal of get_platform_info (and PLATFORMS with VERIBLE_TAG)
platforms(verible_release_tag) ==
    LET v == Cat(S_verible_, verible_release_tag)
        table ==
          { <<S_darwin_arm64,  PlatformInfo(Cat(v, S_macOS), S_tar_gz, Cat(v, S_macOS), <<S_tar, S_zxf>>)>>,
            <<S_darwin_x86_64, PlatformInfo(Cat(v, S_macOS), S_tar_gz, Cat(v, S_macOS), <<S_tar, S_zxf>>)>>,
            <<S_linux_x86_64,  PlatformInfo(Cat(v, S_linux_static_x86_64), S_tar_gz, v, <<S_tar, S_zxf>>)>>,
            <<S_linux_aarch64, PlatformInfo(Cat(v, S_linux_static_arm64), S_tar_gz, v, <<S_tar, S_zxf>>)>>,
            <<S_windows_amd64, PlatformInfo(Cat(v, S_win64), S_zip, Cat(v, S_win64), <<S_unzip>>)>> }
    IN [id \in {e[1] : e \in table} |-> (CHOOSE e \in table : e[1] = id)[2]]

\* the keys of the registry
SupportedIds == DOMAIN platforms(<<>>)

NoPlatformInfo == PlatformInfo(<<>>, <<>>, <<>>, <<>>)

\* a lookup that gives an unknown id the entry of darwin-arm64
get_platform_info_default(platform_id, verible_release_tag) ==
    [raised |-> FALSE,
     value |-> IF platform_id \in DOMAIN platforms(verible_release_tag)
               THEN platforms(verible_release_tag)[platform_id]
               ELSE platforms(verible_release_tag)[S_darwin_arm64]]

\* platforms[platform_id]: the entry, or KeyError
get_platform_info(platform_id, verible_release_tag) ==
    IF platform_id \in DOMAIN platforms(verible_release_tag)
    THEN [raised |-> FALSE, value |-> platforms(verible_release_tag)[platform_id]]
    ELSE [raised |-> TRUE, value |-> NoPlatformInfo]

\* "windows" in platform_id
is_windows(platform_id) == Contains(S_windows, platform_id)

\* release_tag.replace("-", "")
package_tag_of(release_tag) == RemoveChar(release_tag, "-")

\* the suffix each script gives its package
package_suffix(v) == IF v = "json" THEN S_tgz ELSE S_dot_tar_gz

\* a package name that ends with the extension of the platform's entry
make_package_filename_ext(v, platform_id, ptag) ==
    Join(<<S_apio_verible, <<"-">>, platform_id, <<"-">>, ptag, <<".">>,
           platforms(<<>>)[platform_id].verible_ext>>)

\* "".join(["apio-verible", "-", platform_id, "-", package_tag, <suffix>])
make_package_filename(v, platform_id, ptag) ==
    Join(<<S_apio_verible, <<"-">>, platform_id, <<"-">>, ptag, package_suffix(v)>>)

\* platform_info.verible_base_filename + "." + platform_info.verible_ext
make_verible_fname(info) ==
    Cat(Cat(info.verible_base_filename, <<".">>), info.verible_ext)

\* "".join([<releases url>, "/", verible_release_tag, "/", verible_fname])
make_verible_url(verible_release_tag, fname) ==
    Join(<<S_url, <<"/">>, verible_release_tag, <<"/">>, fname>>)

\* an output that holds the two injected keys and nothing of the input
merge_only_injected(bi, platform_id, fname) ==
    [k \in {"target-platform", "file-name"} |->
        IF k = "target-platform" THEN platform_id ELSE fname]

\* build_info["target-platform"] = ...; build_info["file-name"] = ...
merge_build_info(bi, platform_id, fname) ==
    [k \in DOMAIN bi \cup {"target-platform", "file-name"} |->
        IF k = "target-platform" THEN platform_id
        ELSE IF k = "file-name" THEN fname
        ELSE bi[k]]

(* ----------------------------- file system ----------------------------- *)
\* A file system maps paths (sequences of names, relative to the directory
\* the script is invoked in) to entries.  A directory holds no data; a file's
\* data is what was written to it.
Dir == [kind |-> "dir", data |-> "dir"]
File(data) == [kind |-> "file", data |-> data]

EmptyFs == [q \in {} |-> Dir]

IsPrefix(a, b) == Len(a) <= Len(b) /\ SubSeq(b, 1, Len(a)) = a

\* the paths of f strictly below d
Below(f, d) == {q \in DOMAIN f : Len(q) > Len(d) /\ IsPrefix(d, q)}

\* q relative to its ancestor d
Rel(d, q) == SubSeq(q, Len(d) + 1, Len(q))

is_dir(f, q) == q \in DOMAIN f /\ f[q].kind = "dir"
is_file(f, q) == q \in DOMAIN f /\ f[q].kind = "file"

\* f with the entries of g written over it
Overlay(f, g) ==
    [q \in DOMAIN f \cup DOMAIN g |-> IF q \in DOMAIN g THEN g[q] ELSE f[q]]

\* Path.mkdir(parents=True, exist_ok=True)
MkdirP(f, d) ==
    LET missing == {SubSeq(d, 1, k) : k \in 1..Len(d)} \ DOMAIN f
    IN Overlay(f, [q \in missing |-> Dir])

\* a write of one file
WriteFile(f, q, data) == Overlay(f, [x \in {q} |-> File(data)])

\* Path.unlink() of a file, shutil.rmtree() of a directory
RemoveTree(f, d) == [q \in DOMAIN f \ ({d} \cup Below(f, d)) |-> f[q]]

\* the tree below d, as paths relative to d
Subtree(f, d) == [q \in {Rel(d, x) : x \in Below(f, d)} |-> f[Cat(d, q)]]

\* tree t (relative paths) placed below d
Placed(t, d) == [q \in {Cat(d, x) : x \in DOMAIN t} |-> t[Rel(d, q)]]

\* rsync -aq src/ dst/: dst is made when missing and the tree below src is
\* written over it; nothing is deleted from dst
Rsync(f, src, dst) == Overlay(MkdirP(f, dst), Placed(Subtree(f, src), dst))

\* tar/unzip of archive a in directory cwd: the archive's tree is written
\* over cwd, nothing is deleted
Unpack(f, cwd, a) == Overlay(f, Placed(a.tree, cwd))

\* tar zcf ../<name> ./* run in d: the members are the tree below d
TarMembers(f, d) == Subtree(f, d)

\* the paths created, deleted or changed between f and g
Changed(f, g) ==
    {q \in DOMAIN f \cup DOMAIN g :
        \/ q \notin DOMAIN f
        \/ q \notin DOMAIN g
        \/ f[q].kind # g[q].kind
        \/ (f[q].kind = "file" /\ f[q].data # g[q].data)}

(* ------------------------- the upstream release ------------------------ *)
\* What the release URL may serve for a platform whose wrapper directory is
\* w: an archive with a bin directory (the layout of the macOS and Linux
\* releases) or with the executables directly below the wrapper (the layout
\* of the Windows release); the first in two revisions of different content.
NoArchive == [id |-> "none", tree |-> EmptyFs]

Archive(id, w, dirs, files) ==
    [id |-> id,
     tree |-> [q \in {Cat(<<w>>, x) : x \in {<<>>} \cup dirs \cup files} |->
                 IF Rel(<<w>>, q) \in files THEN File(id) ELSE Dir]]

UpstreamArchives(w) ==
    { Archive("nested-1", w, {<<S_bin>>}, {<<S_bin, S_exe>>}),
      Archive("nested-2", w, {<<S_bin>>}, {<<S_bin, S_exe>>, <<S_bin, S_lint>>}),
      Archive("flat-1", w, {}, {<<S_exe>>}) }

(* ------------------------------ inputs --------------------------------- *)
S_old == <<"o", "l", "d">>
S_r_1 == <<"r", "-", "1">>
S_r2 == <<"r", "2">>
S_v1 == <<"v", "1">>
S_windows_arm64 == <<"w", "i", "n", "d", "o", "w", "s", "-", "a", "r", "m", "6", "4">>
S_freebsd_x86_64 == <<"f", "r", "e", "e", "b", "s", "d", "-", "x", "8", "6", "-", "6", "4">>

\* the values --platform-id takes: the registry's keys and two others
PlatformIds == SupportedIds \cup {S_windows_arm64, S_freebsd_x86_64}

Variants == {"json", "text"}

EmptyMap == [k \in {} |-> <<>>]

\* a JSON object with the two tags and the keys of extra (each "old")
JsonObject(release_tag, verible_release_tag, extra) ==
    [k \in {"release-tag", "verible-release-tag"} \cup extra |->
        IF k = "release-tag" THEN release_tag
        ELSE IF k = "verible-release-tag" THEN verible_release_tag
        ELSE S_old]

ExtraKeys == {"description", "target-platform", "file-name"}

BuildInfoFile(exists, json, text) == [exists |-> exists, json |-> json, text |-> text]

\* the build info files --build-info-json names in a run of the pipeline:
\* absent, an object without the tags, objects with them
PipelineJsonFiles ==
    { BuildInfoFile(FALSE, EmptyMap, <<>>),
      BuildInfoFile(TRUE, [k \in {"description"} |-> S_old], <<>>),
      BuildInfoFile(TRUE, JsonObject(S_r_1, S_v1, {}), <<>>),
      BuildInfoFile(TRUE, JsonObject(S_r_1, S_v1, ExtraKeys), <<>>) }

\* the build info files --build-info-file names: absent, or one line
TextFiles ==
    { BuildInfoFile(FALSE, EmptyMap, <<>>),
      BuildInfoFile(TRUE, EmptyMap, <<"a", " ", "=", " ", "1", "\n">>) }

\* the tags the name functions are applied to
TagChars == {"v", "1", "-"}
NameTags == StringsUpTo(TagChars, MaxTagLen)

\* the build info objects the name functions are applied to
NameJsonFiles ==
    {BuildInfoFile(TRUE, JsonObject(rt, S_v1, {}), <<>>) : rt \in NameTags}
    \cup {BuildInfoFile(TRUE, JsonObject(S_r_1, vt, ExtraKeys), <<>>) : vt \in NameTags}

(* ------------------------------- state --------------------------------- *)
VARIABLES
    fs,                  \* the file system below the invocation directory
    pc,                  \* each run's position in main()
    variant,             \* which of the two scripts the run executes
    platform_id,         \* args.platform_id
    bi_file,             \* the file --build-info-json / --build-info-file names
    build_info,          \* json variant: the dict build_info
    package_tag,         \* package_tag / args.package_tag
    verible_release_tag, \* verible_release_tag / VERIBLE_TAG
    platform_info,       \* platform_info
    package_filename,    \* package_filename
    exit_code,           \* the process's exit code, -1 while it runs
    error,               \* the exception that ended the run
    log,                 \* the fallible statements executed: source line, outcome
    dl,                  \* the archive the run's download received
    invocations,         \* how many times the script was started
    clean,               \* whether the run found its scratch directories empty
    touched,             \* the paths the run created, changed or deleted
    view                 \* the file system as the run alone would have made it

locals == <<variant, platform_id, bi_file, build_info, package_tag,
            verible_release_tag, platform_info, package_filename>>
ctl == <<pc, exit_code, error, log>>
disk == <<fs, touched, view>>
vars == <<locals, ctl, disk, dl, clean, invocations>>

\* one upstream directory for every platform
upstream_dir_shared(r) == <<S_upstream>>

\* work_dir / "_upstream" / platform_id
upstream_dir(r) == <<S_upstream, platform_id[r]>>
\* work_dir / "_packages" / platform_id
package_dir(r) == <<S_packages, platform_id[r]>>
\* Path("_packages") / package_filename
final_path(r) == <<S_packages, package_filename[r]>>
\* verible_fname
verible_fname(r) == make_verible_fname(platform_info[r])
\* verible_url
verible_url(r) == make_verible_url(verible_release_tag[r], verible_fname(r))
\* Path(platform_info.verible_wrapper_dir), resolved in upstream_dir
verible_root(r) == Cat(upstream_dir(r), <<platform_info[r].verible_wrapper_dir>>)
\* the package directory itself as the destination on every platform
dst_flat(r) == <<S_packages, platform_id[r]>>

\* dst = package_dir / "bin" if is_windows else package_dir
dst(r) ==
    IF is_windows(platform_id[r]) THEN Cat(package_dir(r), <<S_bin>>)
    ELSE package_dir(r)
\* output_json_file / package_build_info
build_info_path(r) ==
    Cat(package_dir(r),
        <<IF variant[r] = "json" THEN S_BUILD_INFO_json ELSE S_BUILD_INFO>>)

\* the line of a statement in the run's script
L(r, json_line, text_line) == IF variant[r] = "json" THEN json_line ELSE text_line

Init ==
    /\ fs = EmptyFs
    /\ pc = [r \in Runs |-> "idle"]
    /\ variant = [r \in Runs |-> "json"]
    /\ platform_id = [r \in Runs |-> <<>>]
    /\ bi_file = [r \in Runs |-> BuildInfoFile(FALSE, EmptyMap, <<>>)]
    /\ build_info = [r \in Runs |-> EmptyMap]
    /\ package_tag = [r \in Runs |-> <<>>]
    /\ verible_release_tag = [r \in Runs |-> <<>>]
    /\ platform_info = [r \in Runs |-> NoPlatformInfo]
    /\ package_filename = [r \in Runs |-> <<>>]
    /\ exit_code = [r \in Runs |-> -1]
    /\ error = [r \in Runs |-> "none"]
    /\ log = [r \in Runs |-> <<>>]
    /\ dl = [r \in Runs |-> NoArchive]
    /\ clean = [r \in Runs |-> FALSE]
    /\ touched = [r \in Runs |-> {}]
    /\ view = [r \in Runs |-> EmptyFs]
    /\ invocations = 0

(* --------------------------- running commands -------------------------- *)
\* a run() without check=True, which raises nothing
run_unchecked(rc) == FALSE

\* run(): subprocess.run(cmd_args, check=True) raises CalledProcessError
\* exactly when the command's return code is not zero
run(rc) == rc # 0

ReturnCodes == {0, 1}

Entry(line, ok) == [line |-> line, ok |-> ok]

\* the first of the commands, given their return codes, at which run()
\* raises; 0 when none does
FirstRaise(rcs) ==
    IF \E i \in 1..Len(rcs) : run(rcs[i])
    THEN CHOOSE i \in 1..Len(rcs) : run(rcs[i]) /\ \A j \in 1..(i - 1) : ~run(rcs[j])
    ELSE 0

\* the log of run() calls at lines with return codes rcs: all of them, or
\* those up to the one that raised
Ran(lines, rcs) ==
    LET k == FirstRaise(rcs)
        n == IF k = 0 THEN Len(lines) ELSE k
    IN [i \in 1..n |-> Entry(lines[i], rcs[i] = 0)]

\* the run goes on to next, or ends on an uncaught exception (exit code 1)
Advance(r, entries, raised, err, next) ==
    /\ log' = [log EXCEPT ![r] = @ \o entries]
    /\ pc' = [pc EXCEPT ![r] = IF raised THEN "failed" ELSE next]
    /\ exit_code' = [exit_code EXCEPT ![r] =
                        IF raised THEN 1 ELSE IF next = "done" THEN 0 ELSE @]
    /\ error' = [error EXCEPT ![r] = IF raised THEN err ELSE @]

\* the file system becomes after, and the run's own view of it becomes own
\* (what the same statement makes of the view)
Commit(r, after, own) ==
    /\ fs' = after
    /\ view' = [view EXCEPT ![r] = own]
    /\ touched' = [touched EXCEPT ![r] = @ \cup Changed(fs, after)]

(* ------------------------------- main() -------------------------------- *)
\* The script is started with its arguments, in a fresh process.
Invoke(r, v, pid, file, ptag, alone) ==
    /\ pc[r] \in {"idle", "done", "failed"}
    /\ invocations' = invocations + 1
    /\ pc' = [pc EXCEPT ![r] = "import"]
    /\ variant' = [variant EXCEPT ![r] = v]
    /\ platform_id' = [platform_id EXCEPT ![r] = pid]
    /\ bi_file' = [bi_file EXCEPT ![r] = file]
    /\ package_tag' = [package_tag EXCEPT ![r] = ptag]
    /\ build_info' = [build_info EXCEPT ![r] = EmptyMap]
    /\ verible_release_tag' = [verible_release_tag EXCEPT ![r] = <<>>]
    /\ platform_info' = [platform_info EXCEPT ![r] = NoPlatformInfo]
    /\ package_filename' = [package_filename EXCEPT ![r] = <<>>]
    /\ exit_code' = [exit_code EXCEPT ![r] = -1]
    /\ error' = [error EXCEPT ![r] = "none"]
    /\ log' = [log EXCEPT ![r] = <<>>]
    /\ dl' = [dl EXCEPT ![r] = NoArchive]
    /\ touched' = [touched EXCEPT ![r] = {}]
    /\ clean' = [clean EXCEPT ![r] =
                    /\ Below(fs, <<S_upstream, pid>>) = {}
                    /\ Below(fs, <<S_packages, pid>>) = {}]
    /\ view' = [view EXCEPT ![r] = alone]
    /\ UNCHANGED fs

\* the arguments beside --platform-id: the build info file and, for the
\* text script, --package-tag
Arguments(v) ==
    IF v = "json"
    THEN {<<file, <<>> >> : file \in PipelineJsonFiles}
    ELSE {<<file, S_r2>> : file \in TextFiles}

\* One invocation after the other has ended, each with the script of the
\* first and for the platform of the one before it or for an id the registry
\* lacks; the other arguments are each invocation's own.
InvokeSeq(r) ==
    /\ r = 1
    /\ invocations < MaxRuns
    /\ \E v \in (IF invocations = 0 THEN Variants ELSE {variant[r]}),
          pid \in (IF invocations = 0 THEN PlatformIds
                   ELSE {platform_id[r]} \cup (PlatformIds \ SupportedIds)) :
         \E arg \in Arguments(v) : Invoke(r, v, pid, arg[1], arg[2], fs)

\* The module's top level.  build.py annotates run() with Union, which it
\* does not import: an interpreter that evaluates annotations when the
\* function is defined raises NameError there, one that defers them goes on.
ImportModule(r) ==
    /\ pc[r] = "import"
    /\ IF variant[r] = "json"
       THEN /\ Advance(r, <<>>, FALSE, "none", "load")
            /\ UNCHANGED verible_release_tag
       ELSE /\ verible_release_tag' = [verible_release_tag EXCEPT ![r] = VERIBLE_TAG]
            /\ \E eager \in BOOLEAN :
                 Advance(r, <<Entry(34, ~eager)>>, eager, "NameError", "lookup")
    /\ UNCHANGED <<variant, platform_id, bi_file, build_info, package_tag,
                   platform_info, package_filename, disk, dl, clean, invocations>>

\* json: open and load the build info, read the two tags.
\* text: assert that the build info file exists and is a file.
LoadBuildInfo(r) ==
    /\ pc[r] = "load"
    /\ IF variant[r] = "json"
       THEN LET obj == bi_file[r].json IN
            IF ~bi_file[r].exists
            THEN /\ Advance(r, <<Entry(103, FALSE)>>, TRUE, "FileNotFoundError", "lookup")
                 /\ UNCHANGED <<build_info, package_tag, verible_release_tag>>
            ELSE IF "release-tag" \notin DOMAIN obj
            THEN /\ Advance(r, <<Entry(103, TRUE), Entry(114, FALSE)>>, TRUE, "KeyError", "lookup")
                 /\ build_info' = [build_info EXCEPT ![r] = obj]
                 /\ UNCHANGED <<package_tag, verible_release_tag>>
            ELSE IF "verible-release-tag" \notin DOMAIN obj
            THEN /\ Advance(r, <<Entry(103, TRUE), Entry(114, TRUE), Entry(116, FALSE)>>,
                            TRUE, "KeyError", "lookup")
                 /\ build_info' = [build_info EXCEPT ![r] = obj]
                 /\ package_tag' = [package_tag EXCEPT ![r] = package_tag_of(obj["release-tag"])]
                 /\ UNCHANGED verible_release_tag
            ELSE /\ Advance(r, <<Entry(103, TRUE), Entry(114, TRUE), Entry(116, TRUE)>>,
                            FALSE, "none", "lookup")
                 /\ build_info' = [build_info EXCEPT ![r] = obj]
                 /\ package_tag' = [package_tag EXCEPT ![r] = package_tag_of(obj["release-tag"])]
                 /\ verible_release_tag' =
                        [verible_release_tag EXCEPT ![r] = obj["verible-release-tag"]]
       ELSE /\ Advance(r, <<Entry(118, bi_file[r].exists)>>, ~bi_file[r].exists,
                       "AssertionError", "mkdir_upstream")
            /\ UNCHANGED <<build_info, package_tag, verible_release_tag>>
    /\ UNCHANGED <<variant, platform_id, bi_file, platform_info, package_filename,
                   disk, dl, clean, invocations>>

\* platform_info = get_platform_info(...) / PLATFORMS[args.platform_id]
Lookup(r) ==
    /\ pc[r] = "lookup"
    /\ LET res == get_platform_info(platform_id[r], verible_release_tag[r]) IN
         /\ Advance(r, <<Entry(L(r, 118, 104), ~res.raised)>>, res.raised, "KeyError",
                    IF variant[r] = "json" THEN "mkdir_upstream" ELSE "load")
         /\ platform_info' = [platform_info EXCEPT ![r] = res.value]
    /\ UNCHANGED <<variant, platform_id, bi_file, build_info, package_tag,
                   verible_release_tag, package_filename, disk, dl, clean, invocations>>

\* upstream_dir.mkdir(parents=True, exist_ok=True)
MkdirUpstream(r) ==
    /\ pc[r] = "mkdir_upstream"
    /\ LET Eff(f) == MkdirP(f, upstream_dir(r)) IN Commit(r, Eff(fs), Eff(view[r]))
    /\ Advance(r, <<Entry(L(r, 130, 124), TRUE)>>, FALSE, "none", "mkdir_package")
    /\ UNCHANGED <<locals, dl, clean, invocations>>

\* package_dir.mkdir(parents=True, exist_ok=True)
MkdirPackage(r) ==
    /\ pc[r] = "mkdir_package"
    /\ LET Eff(f) == MkdirP(f, package_dir(r)) IN Commit(r, Eff(fs), Eff(view[r]))
    /\ Advance(r, <<Entry(L(r, 135, 129), TRUE)>>, FALSE, "none", "names")
    /\ UNCHANGED <<locals, dl, clean, invocations>>

\* package_filename; json: build_info gets target-platform and file-name
Names(r) ==
    /\ pc[r] = "names"
    /\ LET fname == make_package_filename(variant[r], platform_id[r], package_tag[r]) IN
         /\ package_filename' = [package_filename EXCEPT ![r] = fname]
         /\ build_info' = [build_info EXCEPT ![r] =
                IF variant[r] = "json"
                THEN merge_build_info(@, platform_id[r], fname) ELSE @]
    /\ Advance(r, <<>>, FALSE, "none", "download")
    /\ UNCHANGED <<variant, platform_id, bi_file, package_tag, verible_release_tag,
                   platform_info, disk, dl, clean, invocations>>

\* wget saves under the URL's file name, or under <name>.1, <name>.2, ...
\* when a file of that name is there already
Digits == <<"1", "2", "3", "4", "5", "6", "7", "8", "9">>

WgetTarget(f, d, name) ==
    LET cand(n) == IF n = 0 THEN Cat(d, <<name>>)
                   ELSE Cat(d, <<Cat(name, <<".", Digits[n]>>)>>)
        k == CHOOSE n \in 0..Len(Digits) :
                 cand(n) \notin DOMAIN f /\ \A m \in 0..(n - 1) : cand(m) \in DOMAIN f
    IN cand(k)

\* os.chdir(upstream_dir); run(["wget", "-nv", verible_url]); run(["ls", "-al"])
Download(r) ==
    /\ pc[r] = "download"
    /\ \E a \in UpstreamArchives(platform_info[r].verible_wrapper_dir),
          rcs \in [1..2 -> ReturnCodes] :
         LET Eff(f) == IF rcs[1] = 0
                       THEN WriteFile(f, WgetTarget(f, upstream_dir(r), verible_fname(r)), a)
                       ELSE f
         IN /\ Commit(r, Eff(fs), Eff(view[r]))
            /\ dl' = [dl EXCEPT ![r] = IF rcs[1] = 0 THEN a ELSE @]
            /\ Advance(r, Ran(<<L(r, 172, 164), L(r, 173, 165)>>, rcs),
                       FirstRaise(rcs) # 0, "CalledProcessError", "unarchive")
    /\ UNCHANGED <<locals, clean, invocations>>

\* run(platform_info.unarchive_cmd + [verible_fname]); run(["ls", "-al"])
Unarchive(r) ==
    /\ pc[r] = "unarchive"
    /\ LET archive == Cat(upstream_dir(r), <<verible_fname(r)>>) IN
       \E rcs \in [1..2 -> ReturnCodes] :
         /\ is_file(fs, archive) \/ rcs[1] # 0
         /\ LET Eff(f) == IF rcs[1] = 0 /\ is_file(f, archive)
                          THEN Unpack(f, upstream_dir(r), f[archive].data)
                          ELSE f
            IN Commit(r, Eff(fs), Eff(view[r]))
         /\ Advance(r, Ran(<<L(r, 177, 169), L(r, 178, 170)>>, rcs),
                    FirstRaise(rcs) # 0, "CalledProcessError", "unlink")
    /\ UNCHANGED <<locals, dl, clean, invocations>>

\* Path(verible_fname).unlink(); run(["ls", "-al"])
DeleteArchive(r) ==
    /\ pc[r] = "unlink"
    /\ LET archive == Cat(upstream_dir(r), <<verible_fname(r)>>)
           Eff(f) == RemoveTree(f, archive)
       IN IF archive \notin DOMAIN fs
          THEN /\ Advance(r, <<Entry(L(r, 182, 174), FALSE)>>, TRUE, "FileNotFoundError", "assert")
               /\ UNCHANGED disk
          ELSE \E rc \in ReturnCodes :
                 /\ Commit(r, Eff(fs), Eff(view[r]))
                 /\ Advance(r, <<Entry(L(r, 182, 174), TRUE)>> \o Ran(<<L(r, 183, 175)>>, <<rc>>),
                            run(rc), "CalledProcessError", "assert")
    /\ UNCHANGED <<locals, dl, clean, invocations>>

\* an assertion that passes whatever the extraction produced
marker_assumed(f, r) == TRUE

\* the path whose existence the script asserts after the extraction
marker_exists(f, r) ==
    IF is_windows(platform_id[r])
    THEN is_file(f, Cat(verible_root(r), <<S_exe>>))
    ELSE is_dir(f, Cat(verible_root(r), <<S_bin>>))

\* assert (verible_root / ...).is_file() / .is_dir()
AssertMarker(r) ==
    /\ pc[r] = "assert"
    /\ Advance(r, <<Entry(IF is_windows(platform_id[r]) THEN L(r, 193, 185) ELSE L(r, 195, 187),
                          marker_exists(fs, r))>>,
               ~marker_exists(fs, r), "AssertionError", "rsync")
    /\ UNCHANGED <<locals, disk, dl, clean, invocations>>

\* run(["rsync", "-aq", f"{verible_root}/", f"{dst}/"])
CopyPackageFiles(r) ==
    /\ pc[r] = "rsync"
    /\ \E rc \in ReturnCodes :
         /\ is_dir(fs, verible_root(r)) \/ rc # 0
         /\ LET Eff(f) == IF rc = 0 /\ is_dir(f, verible_root(r))
                          THEN Rsync(f, verible_root(r), dst(r))
                          ELSE f
            IN Commit(r, Eff(fs), Eff(view[r]))
         /\ Advance(r, Ran(<<L(r, 203, 195)>>, <<rc>>), run(rc),
                    "CalledProcessError", "rmtree_root")
    /\ UNCHANGED <<locals, dl, clean, invocations>>

\* shutil.rmtree(verible_root)
DeleteUpstream(r) ==
    /\ pc[r] = "rmtree_root"
    /\ LET Eff(f) == RemoveTree(f, verible_root(r)) IN Commit(r, Eff(fs), Eff(view[r]))
    /\ Advance(r, <<Entry(L(r, 207, 199), is_dir(fs, verible_root(r)))>>,
               ~is_dir(fs, verible_root(r)), "FileNotFoundError", "write")
    /\ UNCHANGED <<locals, dl, clean, invocations>>

\* what the text script leaves in BUILD-INFO: the copy, then two lines
text_build_info(r) ==
    Join(<<bi_file[r].text,
           S_platform_id_eq, platform_id[r], <<"\n">>,
           S_verible_tag_eq, VERIBLE_TAG, <<"\n">>>>)

\* json: json.dump(build_info) with a newline; cat; json-align; cat
\* text: cp of the build info file; two lines appended; ls; cat
WriteBuildInfo(r) ==
    /\ pc[r] = "write"
    /\ IF variant[r] = "json"
       THEN \E rcs \in [1..3 -> ReturnCodes] :
              /\ LET Eff(f) == WriteFile(f, build_info_path(r), build_info[r])
                 IN Commit(r, Eff(fs), Eff(view[r]))
              /\ Advance(r, <<Entry(212, TRUE)>> \o Ran(<<215, 221, 222>>, rcs),
                         FirstRaise(rcs) # 0, "CalledProcessError", "compress")
       ELSE \E rcs \in [1..3 -> ReturnCodes] :
              /\ LET Eff(f) == IF rcs[1] = 0
                               THEN WriteFile(f, build_info_path(r), text_build_info(r))
                               ELSE f
                 IN Commit(r, Eff(fs), Eff(view[r]))
              /\ Advance(r, Ran(<<203, 207, 208>>, rcs),
                         FirstRaise(rcs) # 0, "CalledProcessError", "compress")
    /\ UNCHANGED <<locals, dl, clean, invocations>>

\* os.chdir(package_dir); run(f"tar zcf ../{package_filename} ./*", shell=True)
Compress(r) ==
    /\ pc[r] = "compress"
    /\ \E rc \in ReturnCodes :
         /\ Below(fs, package_dir(r)) # {} \/ rc # 0
         /\ LET Eff(f) == IF rc = 0
                          THEN WriteFile(f, final_path(r), TarMembers(f, package_dir(r)))
                          ELSE f
            IN Commit(r, Eff(fs), Eff(view[r]))
         /\ Advance(r, Ran(<<L(r, 227, 220)>>, <<rc>>), run(rc),
                    "CalledProcessError", "rmtree_package")
    /\ UNCHANGED <<locals, dl, clean, invocations>>

\* shutil.rmtree(package_dir)
DeletePackageDir(r) ==
    /\ pc[r] = "rmtree_package"
    /\ LET Eff(f) == RemoveTree(f, package_dir(r)) IN Commit(r, Eff(fs), Eff(view[r]))
    /\ Advance(r, <<Entry(L(r, 231, 224), is_dir(fs, package_dir(r)))>>,
               ~is_dir(fs, package_dir(r)), "FileNotFoundError", "final")
    /\ UNCHANGED <<locals, dl, clean, invocations>>

\* os.chdir(work_dir); two ls; assert (Path("_packages") / package_filename).is_file()
FinalCheck(r) ==
    /\ pc[r] = "final"
    /\ \E rcs \in [1..2 -> ReturnCodes] :
         LET present == is_file(fs, final_path(r))
             lines == <<L(r, 236, 229), L(r, 237, 230)>>
         IN IF FirstRaise(rcs) # 0
            THEN Advance(r, Ran(lines, rcs), TRUE, "CalledProcessError", "done")
            ELSE Advance(r, Ran(lines, rcs) \o <<Entry(L(r, 238, 231), present)>>,
                         ~present, "AssertionError", "done")
    /\ UNCHANGED <<locals, disk, dl, clean, invocations>>

(* --------------------------- specifications ---------------------------- *)
Step(r) ==
    \/ ImportModule(r)
    \/ LoadBuildInfo(r)
    \/ Lookup(r)
    \/ MkdirUpstream(r)
    \/ MkdirPackage(r)
    \/ Names(r)
    \/ Download(r)
    \/ Unarchive(r)
    \/ DeleteArchive(r)
    \/ AssertMarker(r)
    \/ CopyPackageFiles(r)
    \/ DeleteUpstream(r)
    \/ WriteBuildInfo(r)
    \/ Compress(r)
    \/ DeletePackageDir(r)
    \/ FinalCheck(r)

\* Runs of the script one after the other.
Next == \E r \in Runs : InvokeSeq(r) \/ Step(r)

Spec == Init /\ [][Next]_vars

\* One run, up to the computation of the names, over all the tags.
InvokeNames(r) ==
    /\ r = 1
    /\ invocations = 0
    /\ \E v \in Variants, pid \in PlatformIds :
         \E arg \in (IF v = "json"
                     THEN {<<file, <<>> >> : file \in NameJsonFiles}
                     ELSE {<<file, ptag>> : file \in TextFiles, ptag \in NameTags}) :
           Invoke(r, v, pid, arg[1], arg[2], fs)

NextNames ==
    \E r \in Runs :
        \/ InvokeNames(r)
        \/ ImportModule(r)
        \/ LoadBuildInfo(r)
        \/ Lookup(r)
        \/ MkdirUpstream(r)
        \/ MkdirPackage(r)
        \/ Names(r)

SpecNames == Init /\ [][NextNames]_vars

\* Two invocations side by side in one directory, both running the same
\* script, for two different supported platforms: one platform and the one
\* after it in RegistryOrder, the first after the last. The pairs include
\* the two platforms that download the same file name, the two that share
\* a wrapper directory name, and Windows next to each kind of the others.
RegistryOrder ==
    <<S_darwin_arm64, S_darwin_x86_64, S_linux_x86_64, S_linux_aarch64, S_windows_amd64>>

GoodArguments(v) ==
    IF v = "json"
    THEN <<BuildInfoFile(TRUE, JsonObject(S_r_1, S_v1, {}), <<>>), <<>> >>
    ELSE <<BuildInfoFile(TRUE, EmptyMap, <<"a", " ", "=", " ", "1", "\n">>), S_r2>>

InitPar ==
    /\ fs = EmptyFs
    /\ pc = [r \in Runs |-> "import"]
    /\ \E v \in Variants :
         /\ variant = [r \in Runs |-> v]
         /\ bi_file = [r \in Runs |-> GoodArguments(v)[1]]
         /\ package_tag = [r \in Runs |-> GoodArguments(v)[2]]
    /\ \E i \in 1..Len(RegistryOrder) :
         platform_id = [r \in Runs |->
                          IF r = 1 THEN RegistryOrder[i]
                          ELSE RegistryOrder[(i % Len(RegistryOrder)) + 1]]
    /\ build_info = [r \in Runs |-> EmptyMap]
    /\ verible_release_tag = [r \in Runs |-> <<>>]
    /\ platform_info = [r \in Runs |-> NoPlatformInfo]
    /\ package_filename = [r \in Runs |-> <<>>]
    /\ exit_code = [r \in Runs |-> -1]
    /\ error = [r \in Runs |-> "none"]
    /\ log = [r \in Runs |-> <<>>]
    /\ dl = [r \in Runs |-> NoArchive]
    /\ clean = [r \in Runs |-> TRUE]
    /\ touched = [r \in Runs |-> {}]
    /\ view = [r \in Runs |-> EmptyFs]
    /\ invocations = 2

NextPar == \E r \in Runs : Step(r)

SpecPar == InitPar /\ [][NextPar]_vars

(* ------------------------------- claims -------------------------------- *)
FiveIds ==
    {S_darwin_arm64, S_darwin_x86_64, S_linux_x86_64, S_linux_aarch64, S_windows_amd64}

Executed(r, line) == \E i \in 1..Len(log[r]) : log[r][i].line = line
Passed(r, line) == \E i \in 1..Len(log[r]) : log[r][i].line = line /\ log[r][i].ok

UpstreamScratch(r) == <<S_upstream, platform_id[r]>>
PackageScratch(r) == <<S_packages, platform_id[r]>>
Wrapper(r) == Cat(UpstreamScratch(r), <<platform_info[r].verible_wrapper_dir>>)
FinalArchive(r) == <<S_packages, package_filename[r]>>

\* C1: after a run that exits zero, neither _upstream/<platform_id> nor
\* _packages/<platform_id> exists, and _packages/<package_filename> is a file.
C1_ScratchGoneAfterSuccess ==
    \A r \in Runs :
        exit_code[r] = 0 =>
            /\ UpstreamScratch(r) \notin DOMAIN fs
            /\ PackageScratch(r) \notin DOMAIN fs
            /\ is_file(fs, FinalArchive(r))

\* the marker of the claim: verible-verilog-format.exe, a file, for the
\* Windows platform; bin, a directory, for the others
MarkerUnderWrapper(r) ==
    IF platform_id[r] = S_windows_amd64
    THEN is_file(fs, Cat(Wrapper(r), <<S_exe>>))
    ELSE is_dir(fs, Cat(Wrapper(r), <<S_bin>>))

\* the lines of the marker assertion, of the copy, of the metadata write and
\* of the compression in the run's script
AssertLines(r) == IF variant[r] = "json" THEN {193, 195} ELSE {185, 187}
RepackagingLines(r) == IF variant[r] = "json" THEN {203, 212, 227} ELSE {195, 203, 220}

Repackaged(r) ==
    \/ \E line \in RepackagingLines(r) : Executed(r, line)
    \/ FinalArchive(r) \in touched[r]

\* C2: a run whose extraction left no marker under the wrapper directory
\* aborts at the assertion: the copy is only ever about to start with the
\* marker there, the copy, the metadata write and the compression run and the
\* final archive is written only after the assertion passed, and a run the
\* assertion ended has done none of them.
C2_NoMarkerNoRepackaging ==
    \A r \in Runs :
        /\ pc[r] = "rsync" => MarkerUnderWrapper(r)
        /\ Repackaged(r) => \E line \in AssertLines(r) : Passed(r, line)
        /\ (\E line \in AssertLines(r) : Executed(r, line) /\ ~Passed(r, line)) =>
               /\ pc[r] = "failed" /\ exit_code[r] = 1 /\ error[r] = "AssertionError"
               /\ ~Repackaged(r)

C2_Witness ==
    \E r \in Runs :
        /\ platform_id[r] \in FiveIds
        /\ Passed(r, IF variant[r] = "json" THEN 177 ELSE 169)
        /\ ~MarkerUnderWrapper(r)
        /\ pc[r] = "failed" /\ error[r] = "AssertionError"
        /\ FinalArchive(r) \notin DOMAIN fs

\* C3: a run for a platform id outside the five supported ones ends at the
\* registry lookup with KeyError and a non-zero exit code, and has created,
\* changed and deleted nothing: the file system is as the run found it.
C3_UnsupportedIdNoSideEffects ==
    \A r \in Runs :
        (pc[r] # "idle" /\ platform_id[r] \notin FiveIds) =>
            /\ touched[r] = {}
            /\ fs = view[r]
            /\ ~Passed(r, IF variant[r] = "json" THEN 118 ELSE 104)
            /\ Executed(r, IF variant[r] = "json" THEN 118 ELSE 104) =>
                   /\ pc[r] = "failed" /\ exit_code[r] = 1 /\ error[r] = "KeyError"
                   /\ ~log[r][Len(log[r])].ok
                   /\ log[r][Len(log[r])].line = (IF variant[r] = "json" THEN 118 ELSE 104)
            /\ pc[r] \in {"import", "load", "lookup", "failed"}

C3_Witness ==
    \E r \in Runs :
        /\ platform_id[r] = S_windows_arm64
        /\ pc[r] = "failed" /\ error[r] = "KeyError"
        /\ Executed(r, 118)
        /\ invocations = 2 /\ fs # EmptyFs

\* the fallible statements of a whole run, in order
AllLines(r) ==
    IF variant[r] = "json"
    THEN <<103, 114, 116, 118, 130, 135, 172, 173, 177, 178, 182, 183,
           IF platform_id[r] = S_windows_amd64 THEN 193 ELSE 195,
           203, 207, 212, 215, 221, 222, 227, 231, 236, 237, 238>>
    ELSE <<34, 104, 118, 124, 129, 164, 165, 169, 170, 174, 175,
           IF platform_id[r] = S_windows_amd64 THEN 185 ELSE 187,
           195, 199, 203, 207, 208, 220, 224, 229, 230, 231>>

\* C4: a statement that fails is the last one the run executes and the run
\* ends with a non-zero exit code; no statement is executed twice; the exit
\* code is zero only after every statement of the script succeeded, in order,
\* with the final archive a file at _packages/<package_filename>.
C4_FirstErrorEndsRun ==
    \A r \in Runs :
        /\ \A i \in 1..Len(log[r]) :
               ~log[r][i].ok =>
                   i = Len(log[r]) /\ pc[r] = "failed" /\ exit_code[r] = 1
        /\ \A i, j \in 1..Len(log[r]) : i # j => log[r][i].line # log[r][j].line
        /\ pc[r] = "failed" =>
               /\ exit_code[r] = 1 /\ error[r] # "none"
               /\ log[r] # <<>> /\ ~log[r][Len(log[r])].ok
        /\ exit_code[r] = 0 =>
               /\ pc[r] = "done" /\ error[r] = "none"
               /\ [i \in 1..Len(log[r]) |-> log[r][i].line] = AllLines(r)
               /\ \A i \in 1..Len(log[r]) : log[r][i].ok
               /\ is_file(fs, FinalArchive(r))
        /\ pc[r] \notin {"done", "failed"} => exit_code[r] = -1

C4_Witness ==
    \E r \in Runs :
        /\ pc[r] = "failed" /\ error[r] = "CalledProcessError"
        /\ ~log[r][Len(log[r])].ok
        /\ log[r][Len(log[r])].line = 221

\* the package a run builds from nothing but its own download and build
\* info: the entries of the archive's wrapper directory, below bin for the
\* Windows platform, and the build info file
OwnMetadata(r) ==
    IF variant[r] = "json"
    THEN [k \in DOMAIN bi_file[r].json \cup {"target-platform", "file-name"} |->
            IF k = "target-platform" THEN platform_id[r]
            ELSE IF k = "file-name" THEN package_filename[r]
            ELSE bi_file[r].json[k]]
    ELSE bi_file[r].text
         \o S_platform_id_eq \o platform_id[r] \o <<"\n">>
         \o S_verible_tag_eq \o VERIBLE_TAG \o <<"\n">>

OwnPackage(r) ==
    LET under == IF platform_id[r] = S_windows_amd64 THEN <<S_bin>> ELSE <<>>
        inner == {Tail(q) : q \in {x \in DOMAIN dl[r].tree : Len(x) > 1}}
        info == <<IF variant[r] = "json" THEN S_BUILD_INFO_json ELSE S_BUILD_INFO>>
        paths == {under \o q : q \in inner} \cup {info}
                 \cup (IF under = <<>> THEN {} ELSE {under})
    IN [q \in paths |->
          IF q = info THEN File(OwnMetadata(r))
          ELSE IF q = under THEN Dir
          ELSE dl[r].tree[<<platform_info[r].verible_wrapper_dir>>
                          \o SubSeq(q, Len(under) + 1, Len(q))]]

\* C5, as claimed: whatever earlier runs left behind, the archive of a run
\* that exits zero holds exactly that run's own package.
C5_NothingReusedAcrossRuns ==
    \A r \in Runs :
        exit_code[r] = 0 => fs[FinalArchive(r)].data = OwnPackage(r)

\* the same of a run that found its two scratch directories absent or
\* empty: what C5 says fails only through what an earlier run left there
C5_FreshWhenScratchClean ==
    \A r \in Runs :
        (exit_code[r] = 0 /\ clean[r]) => fs[FinalArchive(r)].data = OwnPackage(r)

C5_Witness ==
    \E r \in Runs :
        /\ exit_code[r] = 0 /\ clean[r]
        /\ invocations = 2
        /\ dl[r].id = "nested-2"

\* C7: once the copy has run, every entry of the wrapper directory is in the
\* package directory, below bin for the Windows platform and directly below
\* the package directory for every other; a package directory that was
\* empty before holds nothing else.
C7_WindowsOnlyUnderBin ==
    \A r \in Runs :
        pc[r] = "rmtree_root" =>
            LET under == IF platform_id[r] = S_windows_amd64
                         THEN Cat(PackageScratch(r), <<S_bin>>)
                         ELSE PackageScratch(r)
                image == {Cat(under, Rel(Wrapper(r), q)) : q \in Below(fs, Wrapper(r))}
            IN /\ \A q \in Below(fs, Wrapper(r)) :
                     /\ Cat(under, Rel(Wrapper(r), q)) \in DOMAIN fs
                     /\ fs[Cat(under, Rel(Wrapper(r), q))] = fs[q]
               /\ clean[r] =>
                     Below(fs, PackageScratch(r)) =
                        image \cup (IF platform_id[r] = S_windows_amd64 THEN {under} ELSE {})

C7_Witness ==
    \E r \in Runs :
        /\ pc[r] = "rmtree_root"
        /\ platform_id[r] = S_windows_amd64
        /\ Cat(PackageScratch(r), <<S_bin, S_exe>>) \in DOMAIN fs
        /\ Cat(PackageScratch(r), <<S_exe>>) \notin DOMAIN fs

\* C8: the build info the json script has written into the package holds
\* every key of the input with its value, but for target-platform and
\* file-name, which hold the platform id and the package's file name.
C8_MetadataMerge ==
    \A r \in Runs :
        (variant[r] = "json" /\ Passed(r, 212) /\ is_file(fs, build_info_path(r))) =>
            LET out == fs[build_info_path(r)].data
                orig == bi_file[r].json
            IN /\ DOMAIN out = DOMAIN orig \cup {"target-platform", "file-name"}
               /\ \A k \in DOMAIN orig \ {"target-platform", "file-name"} : out[k] = orig[k]
               /\ out["target-platform"] = platform_id[r]
               /\ out["file-name"] = package_filename[r]

C8_Witness ==
    \E r \in Runs :
        /\ variant[r] = "json" /\ pc[r] = "compress"
        /\ is_file(fs, build_info_path(r))
        /\ "target-platform" \in DOMAIN bi_file[r].json
        /\ bi_file[r].json["target-platform"] = S_old
        /\ fs[build_info_path(r)].data["description"] = S_old

\* C6, as claimed: the package's file name starts with apio-verible-,
\* the platform id and a dash, and ends with the extension of the
\* platform's registry entry.
C6_NameEndsWithPlatformExt ==
    \A r \in Runs :
        package_filename[r] # <<>> =>
            /\ StartsWith(package_filename[r],
                          Join(<<S_apio_verible, <<"-">>, platform_id[r], <<"-">>>>))
            /\ EndsWith(package_filename[r], platform_info[r].verible_ext)

\* C6, amended: the package's file name starts with apio-verible-, the
\* platform id and a dash, and ends with .tgz (the json script) or .tar.gz
\* (the text script) for every platform, whatever the extension of the
\* platform's registry entry.
C6_NameEndsWithScriptSuffix ==
    \A r \in Runs :
        package_filename[r] # <<>> =>
            /\ StartsWith(package_filename[r],
                          Join(<<S_apio_verible, <<"-">>, platform_id[r], <<"-">>>>))
            /\ variant[r] = "json" => EndsWith(package_filename[r], <<".", "t", "g", "z">>)
            /\ variant[r] = "text" =>
                   EndsWith(package_filename[r], <<".", "t", "a", "r", ".", "g", "z">>)

C6_Witness ==
    \E r \in Runs :
        /\ pc[r] = "download"
        /\ variant[r] = "json"
        /\ platform_id[r] = S_windows_amd64
        /\ platform_info[r].verible_ext = S_zip
        /\ EndsWith(package_filename[r], S_tgz)
        /\ ~EndsWith(package_filename[r], S_zip)

\* what follows the tag in the upstream base file name and in the wrapper
\* directory of each platform
BaseAfterTag(pid) ==
    CASE pid \in {S_darwin_arm64, S_darwin_x86_64} -> S_macOS
      [] pid = S_linux_x86_64 -> S_linux_static_x86_64
      [] pid = S_linux_aarch64 -> S_linux_static_arm64
      [] pid = S_windows_amd64 -> S_win64

WrapperAfterTag(pid) ==
    CASE pid \in {S_darwin_arm64, S_darwin_x86_64} -> S_macOS
      [] pid \in {S_linux_x86_64, S_linux_aarch64} -> <<>>
      [] pid = S_windows_amd64 -> S_win64

Resolved(r) ==
    /\ platform_id[r] \in FiveIds
    /\ platform_info[r] # NoPlatformInfo

CommandMatchesExt(info) ==
    /\ info.verible_ext \in {S_zip, S_tar_gz}
    /\ info.verible_ext = S_zip => info.unarchive_cmd[1] = S_unzip
    /\ info.verible_ext = S_tar_gz => info.unarchive_cmd[1] = S_tar

\* no character of tag is a character of s
Foreign(tag, s) == \A i \in 1..Len(tag) : ~Contains(<<tag[i]>>, s)

\* C9, as claimed: for every supported platform and every version tag the
\* tag occurs exactly once in the base file name and exactly once in the
\* wrapper directory, and the command unpacks the extension's format.
C9_TagOccursOnce ==
    \A r \in Runs :
        Resolved(r) =>
            /\ Cardinality(Occurrences(verible_release_tag[r],
                                       platform_info[r].verible_base_filename)) = 1
            /\ Cardinality(Occurrences(verible_release_tag[r],
                                       platform_info[r].verible_wrapper_dir)) = 1
            /\ CommandMatchesExt(platform_info[r])

\* C9, amended: for every supported platform and every version tag the
\* base file name and the wrapper directory are verible-, the tag, and a
\* text that depends on the platform alone, so the tag is put in at one
\* place; a tag that is not empty and has no character in common with the
\* rest of the name occurs exactly once; the command unpacks the
\* extension's format.
C9_TagSubstitutedOnce ==
    \A r \in Runs :
        Resolved(r) =>
            LET tag == verible_release_tag[r]
                info == platform_info[r]
                base0 == <<"v", "e", "r", "i", "b", "l", "e", "-">> \o BaseAfterTag(platform_id[r])
                wrap0 == <<"v", "e", "r", "i", "b", "l", "e", "-">> \o WrapperAfterTag(platform_id[r])
            IN /\ info.verible_base_filename =
                     <<"v", "e", "r", "i", "b", "l", "e", "-">> \o tag \o BaseAfterTag(platform_id[r])
               /\ info.verible_wrapper_dir =
                     <<"v", "e", "r", "i", "b", "l", "e", "-">> \o tag \o WrapperAfterTag(platform_id[r])
               /\ (tag # <<>> /\ Foreign(tag, base0)) =>
                     Cardinality(Occurrences(tag, info.verible_base_filename)) = 1
               /\ (tag # <<>> /\ Foreign(tag, wrap0)) =>
                     Cardinality(Occurrences(tag, info.verible_wrapper_dir)) = 1
               /\ CommandMatchesExt(info)

C9_Witness ==
    \E r \in Runs :
        /\ Resolved(r)
        /\ pc[r] = "mkdir_upstream"
        /\ variant[r] = "json"
        /\ platform_id[r] = S_linux_aarch64
        /\ verible_release_tag[r] = <<"1", "1">>
        /\ Foreign(verible_release_tag[r], S_verible_)
        /\ Cardinality(Occurrences(verible_release_tag[r],
                                   platform_info[r].verible_wrapper_dir)) = 1

\* the paths that are a run's own: its two scratch directories, what is
\* below them, and its final archive
Own(r, q) ==
    \/ IsPrefix(UpstreamScratch(r), q)
    \/ IsPrefix(PackageScratch(r), q)
    \/ (package_filename[r] # <<>> /\ q = FinalArchive(r))

\* C10: of two runs for different supported platforms in one directory,
\* taking their steps in any order, no path is created, changed or deleted
\* by both; each changes only its own scratch directories and final archive
\* (and makes _upstream and _packages where they are missing); the scratch
\* directories and the final archives of the two are apart; and at every
\* point, the end included, each run's own paths are as they would be had
\* it run alone, and the directory holds what the two would have made.
C10_RunsKeepApart ==
    /\ touched[1] \cap touched[2] = {}
    /\ \A r \in Runs : \A q \in touched[r] :
           Own(r, q) \/ q \in {<<S_upstream>>, <<S_packages>>}
    /\ \A q \in DOMAIN fs \cup DOMAIN view[1] \cup DOMAIN view[2] :
           ~(Own(1, q) /\ Own(2, q))
    /\ UpstreamScratch(1) # UpstreamScratch(2)
    /\ PackageScratch(1) # PackageScratch(2)
    /\ (package_filename[1] # <<>> /\ package_filename[2] # <<>>) =>
           /\ FinalArchive(1) # FinalArchive(2)
           /\ \A r, o \in Runs : FinalArchive(r) # PackageScratch(o)
    /\ \A r \in Runs : \A q \in DOMAIN fs \cup DOMAIN view[r] :
           Own(r, q) => (q \in DOMAIN fs /\ q \in DOMAIN view[r] /\ fs[q] = view[r][q])
    /\ DOMAIN fs = DOMAIN view[1] \cup DOMAIN view[2]
    /\ \A r \in Runs : \A q \in DOMAIN view[r] : fs[q] = view[r][q]

C10_Witness ==
    /\ platform_id[1] # platform_id[2]
    /\ pc[1] = "done" /\ pc[2] = "done"
    /\ exit_code[1] = 0 /\ exit_code[2] = 0
    /\ is_file(fs, FinalArchive(1)) /\ is_file(fs, FinalArchive(2))
    /\ touched[1] # {} /\ touched[2] # {}
    /\ platform_info[1].verible_base_filename = platform_info[2].verible_base_filename

=============================================================================
